---- MODULE Spec2Model ----
(***************************************************************************)
(* A model of useDropzone (src/src/index.tsx): the file filtering pipeline *)
(* (setFiles), the drag state machine (onDragEnterCb, onDragOverCb,        *)
(* onDragLeaveCb, onDropCb), the file-dialog orchestrator (openFileDialog, *)
(* onWindowFocus, open) and the root/input prop composer (getRootProps,    *)
(* getInputProps).                                                         *)
(*                                                                         *)
(* The instance's mutable state is the record st, whose fields carry the   *)
(* names of the signals and closure variables of useDropzone.  Every       *)
(* handler is an operator from a state record to a state record, so a      *)
(* handler that calls another one (onDropCb calls setFiles, open calls     *)
(* openFileDialog) is the composition of the two operators.                *)
(***************************************************************************)
EXTENDS Integers, Sequences, FiniteSets, Bags, TLC

VARIABLES
  cfg,      \* the configuration (local.*), reactive
  st,       \* signals, closure variables, the bound input element
  pending,  \* promises and timers in flight
  last      \* the step taken last: the event dispatched or the task run

vars == <<cfg, st, pending, last>>

(***************************************************************************)
(* Bounds of the model.                                                    *)
(***************************************************************************)
MaxLen == 3        \* longest file list handed to the pipeline
MaxCount == 2      \* largest maxFiles configured

(***************************************************************************)
(* Values.                                                                 *)
(***************************************************************************)
Infinity == 99     \* defaultProps.maxSize
Null == "null"

Types == {"image/gif", "application/pdf"}
Accepts == {Null, "image/*"}          \* acceptAttr(): nothing, or images only
Sizes == {1, 2, 3}

\* A file candidate: name (its position in the list that created it), MIME
\* type and byte size.  The candidates of the model: every image, and the
\* documents of size 2 and 3.
FileAt(i) ==
  { f \in [name : {i}, type : Types, size : Sizes] :
      f.type = "image/gif" \/ f.size >= 2 }

RECURSIVE FileLists(_)
FileLists(n) ==
  IF n = 0 THEN { <<>> }
  ELSE LET shorter == FileLists(n - 1)
       IN shorter \cup { Append(l, f) : l \in { s \in shorter : Len(s) = n - 1 },
                                        f \in FileAt(n) }

\* The event handed to setFiles: null (the picker path) or a DOM event.
NullEvent == [kind |-> "null"]

AllFileLists == FileLists(MaxLen)

(***************************************************************************)
(* Capability predicates of ./utils, seen by this file only through their  *)
(* results.                                                                *)
(***************************************************************************)
\* accept is the accept attribute string, Null when nothing is configured.
fileAccepted(file, accept) ==
  IF accept = Null \/ (accept = "image/*" /\ file.type = "image/gif")
  THEN <<TRUE, Null>>
  ELSE <<FALSE, "file-invalid-type">>

fileMatchSize(file, minSize, maxSize) ==
  IF file.size > maxSize THEN <<FALSE, "file-too-large">>
  ELSE IF file.size < minSize THEN <<FALSE, "file-too-small">>
  ELSE <<TRUE, Null>>

TOO_MANY_FILES_REJECTION == "too-many-files"

(***************************************************************************)
(* The configured validator.  local.validator is absent ("none") or a      *)
(* function File -> FileError | FileError[] | null; the functions of the   *)
(* model object to files of size 3 and answer with one error ("one"), an   *)
(* array of two errors ("many") or an array of no error ("empty").         *)
(***************************************************************************)
Validators == {"none", "one", "many", "empty"}

NoErrors == [kind |-> "null"]

validator(v, file) ==
  IF v = "none" \/ file.size # 3 THEN NoErrors
  ELSE IF v = "one" THEN [kind |-> "error", error |-> "custom-1"]
  ELSE IF v = "many" THEN [kind |-> "array", errors |-> <<"custom-1", "custom-2">>]
  ELSE [kind |-> "array", errors |-> <<>>]

\* !customErrors: null is the only falsy result
Falsy(customErrors) == customErrors.kind = "null"

(***************************************************************************)
(* setFiles, lines 331-378.                                                *)
(***************************************************************************)
\* lines 336-338 and 340: the per-file test
customErrorsOf(file, c) == validator(c.validator, file)

PassesFile(file, c) ==
  /\ fileAccepted(file, c.accept)[1]
  /\ fileMatchSize(file, c.minSize, c.maxSize)[1]
  /\ Falsy(customErrorsOf(file, c))

\* lines 343-347: the error list of a file that does not pass
NonNull(seq) == SelectSeq(seq, LAMBDA e : e # Null)

\* FileErrors with the validator's errors assigned instead of concatenated
FileErrors_Replacing(file, c) ==
  LET errors == NonNull(<<fileAccepted(file, c.accept)[2],
                          fileMatchSize(file, c.minSize, c.maxSize)[2]>>)
      customErrors == customErrorsOf(file, c)
  IN IF Falsy(customErrors) THEN errors
     ELSE IF customErrors.kind = "array"
          THEN customErrors.errors
          ELSE <<customErrors.error>>

FileErrors(file, c) ==
  LET errors == NonNull(<<fileAccepted(file, c.accept)[2],
                          fileMatchSize(file, c.minSize, c.maxSize)[2]>>)
      customErrors == customErrorsOf(file, c)
  IN IF Falsy(customErrors) THEN errors
     ELSE errors \o (IF customErrors.kind = "array"
                     THEN customErrors.errors
                     ELSE <<customErrors.error>>)

\* lines 335-351: the forEach over the files
PerFileAccepted(files, c) == SelectSeq(files, LAMBDA f : PassesFile(f, c))

PerFileRejections(files, c) ==
  LET failing == SelectSeq(files, LAMBDA f : ~PassesFile(f, c))
  IN [i \in 1..Len(failing) |->
        [file |-> failing[i], errors |-> FileErrors(failing[i], c)]]

\* TooManyFiles without its first disjunct, the guard of a single-file zone
TooManyFiles_NoSingle(n, c) ==
  c.multiple /\ c.maxFiles >= 1 /\ n > c.maxFiles

\* lines 353-356: the multiplicity guard
TooManyFiles(n, c) ==
  \/ ~c.multiple /\ n > 1
  \/ c.multiple /\ c.maxFiles >= 1 /\ n > c.maxFiles

\* newAcceptedFiles with the guard evaluated on the size of the input
newAcceptedFiles_OnInputSize(files, c) ==
  IF TooManyFiles(Len(files), c) THEN <<>> ELSE PerFileAccepted(files, c)

\* lines 332-361: the partition setFiles computes
newAcceptedFiles(files, c) ==
  LET passing == PerFileAccepted(files, c)
  IN IF TooManyFiles(Len(passing), c) THEN <<>> ELSE passing

\* newFileRejections that forgets the passing files when the guard trips
newFileRejections_DroppingPassing(files, c) == PerFileRejections(files, c)

newFileRejections(files, c) ==
  LET passing == PerFileAccepted(files, c)
  IN IF TooManyFiles(Len(passing), c)
     THEN PerFileRejections(files, c) \o
          [i \in 1..Len(passing) |->
             [file |-> passing[i], errors |-> <<TOO_MANY_FILES_REJECTION>>]]
     ELSE PerFileRejections(files, c)

\* lines 367-377: the callbacks of one run, in the order of their invocation
Call(cb, args) == [cb |-> cb, args |-> args]

\* DropCalls with onDropRejected invoked whether or not a file was rejected
DropCalls_AlwaysRejected(accepted, rejections, event) ==
  IF event = NullEvent THEN <<>>
  ELSE <<Call("onDrop", <<accepted, rejections, event>>),
         Call("onDropRejected", <<rejections, event>>)>>
       \o (IF Len(accepted) > 0
           THEN <<Call("onDropAccepted", <<accepted, event>>)>> ELSE <<>>)

DropCalls(accepted, rejections, event) ==
  IF event = NullEvent THEN <<>>
  ELSE <<Call("onDrop", <<accepted, rejections, event>>)>>
       \o (IF Len(rejections) > 0
           THEN <<Call("onDropRejected", <<rejections, event>>)>> ELSE <<>>)
       \o (IF Len(accepted) > 0
           THEN <<Call("onDropAccepted", <<accepted, event>>)>> ELSE <<>>)

\* setFiles adding to the lists of the run before
setFiles_Accumulating(s, c, files, event) ==
  LET accepted == s.acceptedFiles \o newAcceptedFiles(files, c)
      rejections == s.fileRejections \o newFileRejections(files, c)
  IN [s EXCEPT !.acceptedFiles = accepted,
               !.fileRejections = rejections,
               !.isDragReject = Len(rejections) > 0,
               !.calls = @ \o DropCalls(accepted, rejections, event),
               !.runs = @ \o <<[files |-> files, event |-> event,
                                accepted |-> accepted,
                                rejections |-> rejections]>>]

setFiles(s, c, files, event) ==
  LET accepted == newAcceptedFiles(files, c)
      rejections == newFileRejections(files, c)
  IN [s EXCEPT !.acceptedFiles = accepted,
               !.fileRejections = rejections,
               !.isDragReject = Len(rejections) > 0,
               !.calls = @ \o DropCalls(accepted, rejections, event),
               !.runs = @ \o <<[files |-> files, event |-> event,
                                accepted |-> accepted,
                                rejections |-> rejections]>>]

(***************************************************************************)
(* The state after construction, lines 99-159.  calls and runs record what *)
(* the step taken last did: the callbacks it invoked, in order, and the    *)
(* runs of setFiles it made.                                               *)
(***************************************************************************)
InitState(fsWorks, inputBound, ieOrEdge) ==
  [isFocused |-> FALSE,
   isFileDialogActive |-> FALSE,
   isDragActive |-> FALSE,
   isDragAccept |-> FALSE,
   isDragReject |-> FALSE,
   acceptedFiles |-> <<>>,
   fileRejections |-> <<>>,
   dragTargets |-> <<>>,
   fsAccessApiWorks |-> fsWorks,
   openCalledInThisTick |-> FALSE,
   inputRef |-> inputBound,        \* an <input> is bound to inputRef
   inputFiles |-> <<>>,            \* inputRef.files
   isIeOrEdge |-> ieOrEdge,        \* the browser isIeOrEdge() sees
   detached |-> {},                \* nodes rootRef no longer contains
   mounted |-> FALSE,              \* the effects of the instance have run
   listeners |-> {},               \* its listeners on document and window
   parent |-> Null,                \* the zone around this one, if any
   calls |-> <<>>,
   runs |-> <<>>,
   spawned |-> <<>>]

\* The state a step starts from: nothing invoked, run or scheduled yet.
Fresh(s) == [s EXCEPT !.calls = <<>>, !.runs = <<>>, !.spawned = <<>>]

\* Promise continuations (a bag: they settle in any order), the queue of the
\* setTimeout(..., 0) callbacks, the 300 ms timers of onWindowFocus and the
\* showOpenFilePicker promises not settled yet.
NoPending ==
  [conts |-> EmptyBag, timers |-> <<>>, focusTimers |-> 0, pickers |-> 0]

DefaultFlags ==
  [disabled |-> FALSE, noClick |-> FALSE, noKeyboard |-> FALSE,
   noDrag |-> FALSE, noDragEventsBubbling |-> FALSE,
   preventDropOnDocument |-> TRUE, useFsAccessApi |-> FALSE]

Config(flags, multiple, maxFiles, minSize, maxSize, accept, v) ==
  [disabled |-> flags.disabled,
   noClick |-> flags.noClick,
   noKeyboard |-> flags.noKeyboard,
   noDrag |-> flags.noDrag,
   noDragEventsBubbling |-> flags.noDragEventsBubbling,
   preventDropOnDocument |-> flags.preventDropOnDocument,
   useFsAccessApi |-> flags.useFsAccessApi,
   multiple |-> multiple,
   maxFiles |-> maxFiles,
   minSize |-> minSize,
   maxSize |-> maxSize,
   accept |-> accept,
   validator |-> v]

(***************************************************************************)
(* DOM nodes and events.  A drag event carries its target, whether its     *)
(* dataTransfer.types names files (hasFiles), the synchronous snapshot     *)
(* dataTransfer.files, what getFilesFromEvent resolves to for it           *)
(* (extracted: a file list, or a rejection), and whether some handler      *)
(* other than the instance's calls event.stopPropagation() during the      *)
(* dispatch (stopped).                                                     *)
(***************************************************************************)
Nodes == {"root", "child"}

Img == [name |-> 1, type |-> "image/gif", size |-> 2]
Pdf == [name |-> 1, type |-> "application/pdf", size |-> 2]

Resolved(files) == [ok |-> TRUE, files |-> files]
Rejected == [ok |-> FALSE, files |-> <<>>]

NoFiles == [hasFiles |-> FALSE, files |-> <<>>, extracted |-> Resolved(<<>>)]
LateImg == [hasFiles |-> TRUE, files |-> <<>>, extracted |-> Resolved(<<Img>>)]
Failing == [hasFiles |-> TRUE, files |-> <<>>, extracted |-> Rejected]
SyncImg == [hasFiles |-> TRUE, files |-> <<Img>>, extracted |-> Resolved(<<Img>>)]
SyncPdf == [hasFiles |-> TRUE, files |-> <<Pdf>>, extracted |-> Resolved(<<Pdf>>)]

DragEvent(kind, target, payload, stopped) ==
  [kind |-> kind, target |-> target, hasFiles |-> payload.hasFiles,
   files |-> payload.files, extracted |-> payload.extracted,
   stopped |-> stopped]

\* The drag events of the model: every payload on the root, the file payloads
\* on the child, and a foreign stopPropagation() on two of them.
DragInputs ==
  { <<"root", p, FALSE>> : p \in {NoFiles, LateImg, Failing, SyncImg, SyncPdf} }
  \cup { <<"child", p, FALSE>> : p \in {LateImg, SyncImg} }
  \cup { <<"root", p, TRUE>> : p \in {LateImg, SyncImg} }

\* What a callback and the step record keep of an event, and what the
\* continuation of an extraction keeps of it.
EventOf(event) == [kind |-> event.kind]
ContEvent(event) ==
  [kind |-> event.kind, extracted |-> event.extracted, stopped |-> event.stopped]

\* rootRef.contains(target), lines 185 and 308
Contains(s, target) == target \in Nodes /\ target \notin s.detached

(***************************************************************************)
(* Predicates of ./utils.                                                  *)
(***************************************************************************)
\* An event without dataTransfer (the input's change) carries files when its
\* target has a files property, which a file input always has.
isEvtWithFiles(event) ==
  IF event.kind = "change" THEN TRUE ELSE event.hasFiles

TooManyByLength(n, c) ==
  \/ ~c.multiple /\ n > 1
  \/ c.multiple /\ c.maxFiles >= 1 /\ n > c.maxFiles

\* allFilesAccepted without the test of the count
allFilesAccepted_IgnoringCount(files, c) ==
  \A i \in 1..Len(files) :
    /\ fileAccepted(files[i], c.accept)[1]
    /\ fileMatchSize(files[i], c.minSize, c.maxSize)[1]
    /\ Falsy(validator(c.validator, files[i]))

allFilesAccepted(files, c) ==
  /\ ~TooManyByLength(Len(files), c)
  /\ \A i \in 1..Len(files) :
       /\ fileAccepted(files[i], c.accept)[1]
       /\ fileMatchSize(files[i], c.minSize, c.maxSize)[1]
       /\ Falsy(validator(c.validator, files[i]))

\* The propagation flag of the event (cancelBubble).
isPropagationStopped(event) == event.stopped

(***************************************************************************)
(* onDragEnterCb, lines 219-277.                                           *)
(***************************************************************************)
Invoke(s, cb, args) == [s EXCEPT !.calls = Append(@, Call(cb, args))]

\* lines 210-217
onErrCb(s, e) == Invoke(s, "onError", <<e>>)
SpawnTask(s, task) == [s EXCEPT !.spawned = Append(@, task)]
Cont(task, event) == [task |-> task, event |-> event]

SetDragFlags(s, active, accept, reject) ==
  [s EXCEPT !.isDragActive = active,
            !.isDragAccept = accept,
            !.isDragReject = reject]

\* lines 558-567: the instance stops the propagation of the drag events it
\* handles when noDragEventsBubbling is set
stopPropagation(event, c) ==
  [event EXCEPT !.stopped = @ \/ c.noDragEventsBubbling]

onDragEnterCb(s, c, event) ==
  LET s1 == Invoke(s, "preventDefault", <<EventOf(event)>>)
      s2 == [s1 EXCEPT !.dragTargets = Append(@, event.target)]
      \* line 225: the extractor is called and its promise dropped; a
      \* rejection of that promise has no handler
      s2a == Invoke(s2, "getFilesFromEvent", <<EventOf(event), "dropped">>)
      s3 == IF event.extracted.ok THEN s2a
            ELSE Invoke(s2a, "unhandledrejection", <<"ExtractionError">>)
  IN IF Len(event.files) > 0
     THEN LET accept == allFilesAccepted(event.files, c)
          IN Invoke(SetDragFlags(s3, TRUE, accept, ~accept),
                    "onDragEnter", <<EventOf(event)>>)
     ELSE IF isEvtWithFiles(event)
     THEN SpawnTask(Invoke(s3, "getFilesFromEvent", <<EventOf(event), "awaited">>),
                    Cont("dragenter", ContEvent(stopPropagation(event, c))))
     ELSE s3

\* lines 248-275: the continuation, once the extractor's promise has settled
onDragEnterThen(s, c, event) ==
  IF ~event.extracted.ok
  THEN onErrCb(s, "ExtractionError")
  ELSE IF isPropagationStopped(event) /\ ~c.noDragEventsBubbling
  THEN s
  ELSE LET files == event.extracted.files
           fileCount == Len(files)
           dragAccept == fileCount > 0 /\ allFilesAccepted(files, c)
           dragReject == fileCount > 0 /\ ~dragAccept
       IN Invoke(SetDragFlags(s, TRUE, dragAccept, dragReject),
                 "onDragEnter", <<EventOf(event)>>)

(***************************************************************************)
(* The effects of lines 176-201.  An effect runs when the instance mounts  *)
(* and again when a prop it has read changes; what it handed to onCleanup  *)
(* runs before the effect runs again and when the instance is disposed.    *)
(***************************************************************************)
WindowListeners == {"window.focus"}
DocumentListeners == {"document.dragover", "document.drop"}

\* lines 176-181
windowFocusEffect(s, c) == [s EXCEPT !.listeners = @ \cup WindowListeners]
windowFocusCleanup(s, c) == [s EXCEPT !.listeners = @ \ WindowListeners]

\* lines 192-201: the cleanup is registered by the run that added
documentDropEffect(s, c) ==
  IF c.preventDropOnDocument
  THEN [s EXCEPT !.listeners = @ \cup DocumentListeners]
  ELSE s

\* documentDropCleanup that removes nothing
documentDropCleanup_Leaking(s, c) == s

documentDropCleanup(s, c) ==
  IF c.preventDropOnDocument
  THEN [s EXCEPT !.listeners = @ \ DocumentListeners]
  ELSE s

\* The instance mounts: both effects run for the first time.
mount(s, c) ==
  documentDropEffect(windowFocusEffect([s EXCEPT !.mounted = TRUE], c), c)

\* The instance is disposed: the cleanups of both effects run.
dispose(s, c) ==
  documentDropCleanup(windowFocusCleanup([s EXCEPT !.mounted = FALSE], c), c)

\* preventDropOnDocument changes from its value in c to its value in d: the
\* cleanup of the last run, then the effect again.
documentDropRerun(s, c, d) ==
  IF s.mounted THEN documentDropEffect(documentDropCleanup(s, c), d) ELSE s

\* onDocumentDragOver of ./utils
onDocumentDragOver(s, c, event) ==
  Invoke(s, "preventDefault", <<EventOf(event)>>)

\* onDocumentDrop that leaves the drag targets as they are
onDocumentDrop_KeepingTargets(s, c, event) ==
  IF Contains(s, event.target) THEN s
  ELSE Invoke(s, "preventDefault", <<EventOf(event)>>)

\* lines 184-190
onDocumentDrop(s, c, event) ==
  IF Contains(s, event.target) THEN s
  ELSE [Invoke(s, "preventDefault", <<EventOf(event)>>)
          EXCEPT !.dragTargets = <<>>]

(***************************************************************************)
(* onDragOverCb, lines 279-297.                                            *)
(***************************************************************************)
onDragOverCb(s, c, event) ==
  LET s1 == Invoke(s, "preventDefault", <<EventOf(event)>>)
  IN IF isEvtWithFiles(event)
     THEN Invoke(s1, "onDragOver", <<EventOf(event)>>)
     ELSE s1

(***************************************************************************)
(* onDragLeaveCb, lines 299-329.                                           *)
(***************************************************************************)
Includes(seq, x) == \E i \in 1..Len(seq) : seq[i] = x

\* indexOf: the first position of x, 0 when there is none
IndexOf(seq, x) ==
  IF Includes(seq, x)
  THEN CHOOSE i \in 1..Len(seq) :
         seq[i] = x /\ \A j \in 1..(i - 1) : seq[j] # x
  ELSE 0

\* splice(idx, 1)
RemoveAt(seq, idx) ==
  [i \in 1..(Len(seq) - 1) |-> IF i < idx THEN seq[i] ELSE seq[i + 1]]

\* lines 307-317: the list a leave keeps
\* LeaveTargets dropping every occurrence of the node that was left
LeaveTargets_RemovingAll(s, event) ==
  LET targets == SelectSeq(s.dragTargets, LAMBDA t : Contains(s, t))
  IN SelectSeq(targets, LAMBDA t : t # event.target)

\* LeaveTargets without the filter on rootRef.contains
LeaveTargets_NotPruning(s, event) ==
  LET targetIdx == IndexOf(s.dragTargets, event.target)
  IN IF targetIdx # 0 THEN RemoveAt(s.dragTargets, targetIdx)
     ELSE s.dragTargets

\* lines 307-316
LeaveTargets(s, event) ==
  LET targets == SelectSeq(s.dragTargets, LAMBDA t : Contains(s, t))
      targetIdx == IndexOf(targets, event.target)
  IN IF targetIdx # 0 THEN RemoveAt(targets, targetIdx) ELSE targets

onDragLeaveCb(s, c, event) ==
  IF ~isEvtWithFiles(event) THEN s
  ELSE IF ~Includes(s.dragTargets, event.target) THEN s
  ELSE LET s1 == Invoke(s, "preventDefault", <<EventOf(event)>>)
           targets == LeaveTargets(s, event)
           s2 == [s1 EXCEPT !.dragTargets = targets]
       IN IF Len(targets) > 0 THEN s2
          ELSE Invoke(SetDragFlags(s2, FALSE, FALSE, FALSE),
                      "onDragLeave", <<EventOf(event)>>)

(***************************************************************************)
(* onDropCb, lines 380-422: the drop on the root and the input's change.   *)
(***************************************************************************)
\* onDropCb without the synchronous run on dataTransfer.files
onDropCb_WithoutSnapshot(s, c, event) ==
  IF event.kind = "change" /\ Len(event.files) > 0
  THEN LET s1 == Invoke(s, "preventDefault", <<EventOf(event)>>)
           s2 == [s1 EXCEPT !.dragTargets = <<>>]
           s3 == setFiles(s2, c, event.files, EventOf(event))
       IN SetDragFlags(s3, FALSE, FALSE, FALSE)
  ELSE LET s1 == Invoke(s, "preventDefault", <<EventOf(event)>>)
           s2 == [s1 EXCEPT !.dragTargets = <<>>]
           s4 == IF isEvtWithFiles(event)
                 THEN SpawnTask(
                        Invoke(s2, "getFilesFromEvent", <<EventOf(event), "awaited">>),
                        Cont("drop", ContEvent(stopPropagation(event, c))))
                 ELSE s2
       IN SetDragFlags(s4, FALSE, FALSE, FALSE)

onDropCb(s, c, event) ==
  IF event.kind = "change" /\ Len(event.files) > 0
  THEN LET s1 == Invoke(s, "preventDefault", <<EventOf(event)>>)
           s2 == [s1 EXCEPT !.dragTargets = <<>>]
           s3 == setFiles(s2, c, event.files, EventOf(event))
       IN SetDragFlags(s3, FALSE, FALSE, FALSE)
  ELSE LET s1 == Invoke(s, "preventDefault", <<EventOf(event)>>)
           s2 == [s1 EXCEPT !.dragTargets = <<>>]
           s3 == IF isEvtWithFiles(event) /\ Len(event.files) > 0
                 THEN setFiles(s2, c, event.files, EventOf(event))
                 ELSE s2
           s4 == IF isEvtWithFiles(event)
                 THEN SpawnTask(
                        Invoke(s3, "getFilesFromEvent", <<EventOf(event), "awaited">>),
                        Cont("drop", ContEvent(stopPropagation(event, c))))
                 ELSE s3
       IN SetDragFlags(s4, FALSE, FALSE, FALSE)

\* onDropThen without the test of isPropagationStopped
onDropThen_NeverSwallowing(s, c, event) ==
  IF ~event.extracted.ok
  THEN onErrCb(s, "ExtractionError")
  ELSE setFiles(s, c, event.extracted.files, EventOf(event))

\* lines 409-415: the continuation, once the extractor's promise has settled
onDropThen(s, c, event) ==
  IF ~event.extracted.ok
  THEN onErrCb(s, "ExtractionError")
  ELSE IF isPropagationStopped(event) /\ ~c.noDragEventsBubbling
  THEN s
  ELSE setFiles(s, c, event.extracted.files, EventOf(event))

(***************************************************************************)
(* The file-dialog orchestrator: openFileDialog, lines 424-476, and the    *)
(* settling of the promise of showOpenFilePicker, lines 439-466.           *)
(***************************************************************************)
\* ClickInput that leaves the value of the input as it is
ClickInput_KeepingValue(s) ==
  Invoke(s, "inputRef.click", <<>>)

\* inputRef.value = ""; inputRef.click()
ClickInput(s) ==
  Invoke([s EXCEPT !.inputFiles = <<>>], "inputRef.click", <<>>)

OpenDialog(s) ==
  Invoke([s EXCEPT !.isFileDialogActive = TRUE], "onFileDialogOpen", <<>>)

\* openFileDialog probing the configuration again on every call
openFileDialog_Reprobing(s, c) ==
  LET s0 == [s EXCEPT !.fsAccessApiWorks = c.useFsAccessApi]
  IN IF s0.fsAccessApiWorks
     THEN SpawnTask(Invoke(OpenDialog(s0), "showOpenFilePicker", <<>>),
                    [task |-> "picker"])
     ELSE IF s0.inputRef
     THEN ClickInput(OpenDialog(s0))
     ELSE s0

openFileDialog(s, c) ==
  IF s.fsAccessApiWorks
  THEN SpawnTask(Invoke(OpenDialog(s), "showOpenFilePicker", <<>>),
                 [task |-> "picker"])
  ELSE IF s.inputRef
  THEN ClickInput(OpenDialog(s))
  ELSE s

\* pickerThen handing setFiles an event in place of null
pickerThen_WithEvent(s, c, files) ==
  LET s1 == setFiles(s, c, files, [kind |-> "files"])
  IN [s1 EXCEPT !.isFileDialogActive = FALSE]

\* lines 440-443
pickerThen(s, c, files) ==
  LET s1 == setFiles(s, c, files, NullEvent)
  IN [s1 EXCEPT !.isFileDialogActive = FALSE]

\* isAbort and isSecurityError of ./utils classify an error by its name
PickerErrors == {"AbortError", "SecurityError", "TypeError"}
isAbort(e) == e = "AbortError"
isSecurityError(e) == e = "SecurityError"

NoInputError == "Cannot open the file picker"

\* pickerCatch taking every error but a security error for a cancellation
pickerCatch_CancellingAll(s, c, e) ==
  IF isSecurityError(e)
  THEN LET s1 == [s EXCEPT !.fsAccessApiWorks = FALSE]
       IN IF s1.inputRef THEN ClickInput(s1) ELSE onErrCb(s1, NoInputError)
  ELSE [Invoke(s, "onFileDialogCancel", <<>>) EXCEPT !.isFileDialogActive = FALSE]

\* lines 444-466
pickerCatch(s, c, e) ==
  IF isAbort(e)
  THEN [Invoke(s, "onFileDialogCancel", <<>>) EXCEPT !.isFileDialogActive = FALSE]
  ELSE IF isSecurityError(e)
  THEN LET s1 == [s EXCEPT !.fsAccessApiWorks = FALSE]
       IN IF s1.inputRef THEN ClickInput(s1) ELSE onErrCb(s1, NoInputError)
  ELSE onErrCb(s, e)

(***************************************************************************)
(* onWindowFocus, lines 162-174, and the callback of its timer.            *)
(***************************************************************************)
onWindowFocus(s, c) ==
  IF ~s.fsAccessApiWorks /\ s.isFileDialogActive
  THEN SpawnTask(s, [task |-> "focusTimer"])
  ELSE s

\* lines 165-171, 300 ms later
onWindowFocusTimeout(s, c) ==
  IF s.inputRef /\ Len(s.inputFiles) = 0
  THEN Invoke([s EXCEPT !.isFileDialogActive = FALSE], "onFileDialogCancel", <<>>)
  ELSE s

(***************************************************************************)
(* The keyboard, focus and click handlers of the root, lines 479-535, and  *)
(* open, lines 673-682.  event.stopped is cancelBubble as the handler the  *)
(* caller passed to getRootProps, which runs first, left it.               *)
(***************************************************************************)
OpeningKeys == {" ", "Enter"}

onKeyDownCb(s, c, event) ==
  IF event.stopped THEN s
  ELSE IF event.target # "root" THEN s
  ELSE IF event.key \in OpeningKeys
  THEN openFileDialog(Invoke(s, "preventDefault", <<EventOf(event)>>), c)
  ELSE s

onFocusCb(s, c, event) ==
  IF event.stopped THEN s ELSE [s EXCEPT !.isFocused = TRUE]

onBlurCb(s, c, event) ==
  IF event.stopped THEN s ELSE [s EXCEPT !.isFocused = FALSE]

\* onClickCb without the test of cancelBubble
onClickCb_IgnoringCancelBubble(s, c, event) ==
  IF c.noClick \/ s.openCalledInThisTick THEN s
  ELSE IF s.isIeOrEdge
  THEN IF s.inputRef THEN Invoke(s, "inputRef.click", <<>>) ELSE s
  ELSE SpawnTask(s, [task |-> "timer", fn |-> "openFileDialog"])

\* onClickCb without the test of openCalledInThisTick
onClickCb_IgnoringTick(s, c, event) ==
  IF event.stopped THEN s
  ELSE IF c.noClick THEN s
  ELSE IF s.isIeOrEdge
  THEN IF s.inputRef THEN Invoke(s, "inputRef.click", <<>>) ELSE s
  ELSE SpawnTask(s, [task |-> "timer", fn |-> "openFileDialog"])

onClickCb(s, c, event) ==
  IF event.stopped THEN s
  ELSE IF c.noClick \/ s.openCalledInThisTick THEN s
  ELSE IF s.isIeOrEdge
  THEN IF s.inputRef THEN Invoke(s, "inputRef.click", <<>>) ELSE s
  ELSE SpawnTask(s, [task |-> "timer", fn |-> "openFileDialog"])

\* open without the test of disabled
open_IgnoringDisabled(s, c) ==
  SpawnTask(openFileDialog([s EXCEPT !.openCalledInThisTick = TRUE], c),
            [task |-> "timer", fn |-> "resetTick"])

open(s, c) ==
  IF ~c.disabled
  THEN SpawnTask(openFileDialog([s EXCEPT !.openCalledInThisTick = TRUE], c),
                 [task |-> "timer", fn |-> "resetTick"])
  ELSE s

\* the callbacks handed to setTimeout(..., 0), lines 533 and 678-680
runTimer(s, c, fn) ==
  IF fn = "openFileDialog" THEN openFileDialog(s, c)
  ELSE [s EXCEPT !.openCalledInThisTick = FALSE]

\* lines 631-633
onInputElementClick(s, c, event) == s

\* The result of the hook, lines 684-697.  The signals are handed out as
\* accessors, which read the state of the moment; isFileDialogActive is the
\* value the signal had when the result was built.
result(s, c) ==
  [isFocused |-> s.isFocused /\ ~c.disabled,
   isFileDialogActive |-> InitState(FALSE, FALSE, FALSE).isFileDialogActive,
   isDragActive |-> s.isDragActive,
   isDragAccept |-> s.isDragAccept,
   isDragReject |-> s.isDragReject,
   acceptedFiles |-> s.acceptedFiles,
   fileRejections |-> s.fileRejections]

(***************************************************************************)
(* The prop composer, lines 537-671.  A handler of the bundle is absent    *)
(* (the event then reaches no code of the instance) or it is the           *)
(* composition of the configured callback, the handler the caller passed   *)
(* to getRootProps and the instance's own handler.                         *)
(***************************************************************************)
\* local.onDragEnter, local.onDragOver, local.onDragLeave, local.onDrop as
\* first handlers of the composition, lines 600, 606, 612, 618
localOnDragEnter(s, c, event) == Invoke(s, "onDragEnter", <<EventOf(event)>>)
localOnDragOver(s, c, event) == Invoke(s, "onDragOver", <<EventOf(event)>>)
localOnDragLeave(s, c, event) == Invoke(s, "onDragLeave", <<EventOf(event)>>)
localOnDrop(s, c, event) == Invoke(s, "onDrop", <<EventOf(event)>>)

\* The functions the bundles compose, by name.
RunHandler(fn, s, c, event) ==
  CASE fn = "local.onDragEnter" -> localOnDragEnter(s, c, event)
    [] fn = "local.onDragOver" -> localOnDragOver(s, c, event)
    [] fn = "local.onDragLeave" -> localOnDragLeave(s, c, event)
    [] fn = "local.onDrop" -> localOnDrop(s, c, event)
    [] fn = "onDragEnterCb" -> onDragEnterCb(s, c, event)
    [] fn = "onDragOverCb" -> onDragOverCb(s, c, event)
    [] fn = "onDragLeaveCb" -> onDragLeaveCb(s, c, event)
    [] fn = "onDropCb" -> onDropCb(s, c, event)
    [] fn = "onKeyDownCb" -> onKeyDownCb(s, c, event)
    [] fn = "onFocusCb" -> onFocusCb(s, c, event)
    [] fn = "onBlurCb" -> onBlurCb(s, c, event)
    [] fn = "onClickCb" -> onClickCb(s, c, event)
    [] fn = "onInputElementClick" -> onInputElementClick(s, c, event)

\* composeEventHandlers of ./utils: the handlers run in the order given.  The
\* handler the caller passed to getRootProps or getInputProps is not code of
\* the instance: all the model keeps of it is event.stopped.
RECURSIVE composeEventHandlers(_, _, _, _)
composeEventHandlers(fns, s, c, event) ==
  IF fns = <<>> THEN s
  ELSE composeEventHandlers(Tail(fns), RunHandler(Head(fns), s, c, event),
                            c, event)

\* lines 537-539
composeHandlerPresent(c) == ~c.disabled

\* lines 541-543
composeKeyboardHandlerPresent(c) ==
  IF c.noKeyboard THEN FALSE ELSE composeHandlerPresent(c)

\* composeDragHandler without the test of noDrag
composeDragHandlerPresent_IgnoringNoDrag(c) ==
  IF c.noDragEventsBubbling THEN TRUE ELSE composeHandlerPresent(c)

\* lines 545-556
composeDragHandlerPresent(c) ==
  IF c.noDrag THEN FALSE
  ELSE IF c.noDragEventsBubbling THEN TRUE
  ELSE composeHandlerPresent(c)

\* lines 537-539 and 541-543 around the composition of fns
composeHandler(fns, s, c, event) ==
  IF composeHandlerPresent(c) THEN composeEventHandlers(fns, s, c, event)
  ELSE s

composeKeyboardHandler(fns, s, c, event) ==
  IF composeKeyboardHandlerPresent(c)
  THEN composeEventHandlers(fns, s, c, event)
  ELSE s

\* lines 545-556 around the composition of fns; lines 549-552: the wrapper
\* stops the propagation before the handlers run
composeDragHandler(fns, s, c, event) ==
  IF ~composeDragHandlerPresent(c) THEN s
  ELSE IF c.noDragEventsBubbling
  THEN composeEventHandlers(fns, s, c, [event EXCEPT !.stopped = TRUE])
  ELSE composeEventHandlers(fns, s, c, event)

\* getRootProps, lines 586-621, and getInputProps, lines 655-660
rootOnKeyDown(s, c, event) ==
  composeKeyboardHandler(<<"onKeyDownCb">>, s, c, event)
rootOnFocus(s, c, event) ==
  composeKeyboardHandler(<<"onFocusCb">>, s, c, event)
rootOnBlur(s, c, event) ==
  composeKeyboardHandler(<<"onBlurCb">>, s, c, event)
rootOnClick(s, c, event) ==
  composeHandler(<<"onClickCb">>, s, c, event)
rootOnDragEnter(s, c, event) ==
  composeDragHandler(<<"local.onDragEnter", "onDragEnterCb">>, s, c, event)
rootOnDragOver(s, c, event) ==
  composeDragHandler(<<"local.onDragOver", "onDragOverCb">>, s, c, event)
rootOnDragLeave(s, c, event) ==
  composeDragHandler(<<"local.onDragLeave", "onDragLeaveCb">>, s, c, event)
rootOnDrop(s, c, event) ==
  composeDragHandler(<<"local.onDrop", "onDropCb">>, s, c, event)
inputOnChange(s, c, event) ==
  composeHandler(<<"onDropCb">>, s, c, event)
inputOnClick(s, c, event) ==
  composeHandler(<<"onInputElementClick">>, s, c, event)

\* The behavioural handlers of the two bundles: TRUE when present.
RootProps(c) ==
  [onKeyDown |-> composeKeyboardHandlerPresent(c),
   onFocus |-> composeKeyboardHandlerPresent(c),
   onBlur |-> composeKeyboardHandlerPresent(c),
   onClick |-> composeHandlerPresent(c),
   onDragEnter |-> composeDragHandlerPresent(c),
   onDragOver |-> composeDragHandlerPresent(c),
   onDragLeave |-> composeDragHandlerPresent(c),
   onDrop |-> composeDragHandlerPresent(c)]

InputProps(c) ==
  [onChange |-> composeHandlerPresent(c),
   onClick |-> composeHandlerPresent(c)]

(***************************************************************************)
(* Steps.  A step runs one handler, or one continuation or timer, to its   *)
(* end; what it scheduled joins the tasks in flight.                       *)
(***************************************************************************)
MaxTargets == 2    \* longest drag-target list
MaxConts == 1      \* most extraction promises in flight
MaxTimers == 2     \* most timers and picker promises in flight

IsCont(task) == task.task \in {"dragenter", "drop"}

RECURSIVE AddTasks(_, _)
AddTasks(p, tasks) ==
  IF tasks = <<>> THEN p
  ELSE LET t == Head(tasks)
           q == IF IsCont(t)
                THEN [p EXCEPT !.conts = @ (+) SetToBag({t})]
                ELSE IF t.task = "timer"
                THEN [p EXCEPT !.timers = Append(@, t.fn)]
                ELSE IF t.task = "focusTimer"
                THEN [p EXCEPT !.focusTimers = @ + 1]
                ELSE [p EXCEPT !.pickers = @ + 1]
       IN AddTasks(q, Tail(tasks))

Fits(p) ==
  /\ BagCardinality(p.conts) <= MaxConts
  /\ Len(p.timers) + p.focusTimers + p.pickers <= MaxTimers

\* The step from st to s that leaves p of the tasks in flight.
Step(s, p, op, event) ==
  /\ Fits(AddTasks(p, s.spawned))
  /\ st' = s
  /\ pending' = AddTasks(p, s.spawned)
  /\ last' = [op |-> op, event |-> EventOf(event)]
  /\ UNCHANGED cfg

\* The events dispatched on the root reach it from a node it contains.
RootDragEvents(kind) ==
  { DragEvent(kind, i[1], i[2], i[3]) :
      i \in { j \in DragInputs : st.mounted /\ Contains(st, j[1]) } }

DispatchDragEnter ==
  \E event \in RootDragEvents("dragenter") :
    /\ Len(st.dragTargets) < MaxTargets
    /\ Step(rootOnDragEnter(Fresh(st), cfg, event), pending, "dispatch", event)

DispatchDragOver ==
  \E event \in RootDragEvents("dragover") :
    Step(rootOnDragOver(Fresh(st), cfg, event), pending, "dispatch", event)

DispatchDragLeave ==
  \E event \in RootDragEvents("dragleave") :
    Step(rootOnDragLeave(Fresh(st), cfg, event), pending, "dispatch", event)

DispatchDrop ==
  \E event \in RootDragEvents("drop") :
    Step(rootOnDrop(Fresh(st), cfg, event), pending, "dispatch", event)

\* The promise of an extraction settles: lines 248-275 and 409-415.
SettleExtraction ==
  \E t \in BagToSet(pending.conts) :
    LET p == [pending EXCEPT !.conts = @ (-) SetToBag({t})]
        s == IF t.task = "dragenter"
             THEN onDragEnterThen(Fresh(st), cfg, t.event)
             ELSE onDropThen(Fresh(st), cfg, t.event)
    IN Step(s, p, "settle", t.event)

\* A node inside the root is removed from it.
DetachChild ==
  /\ "child" \notin st.detached
  /\ Step([Fresh(st) EXCEPT !.detached = @ \cup {"child"}], pending,
          "detach", NullEvent)

(***************************************************************************)
(* The steps of the dialog side: the imperative open, the keyboard, focus  *)
(* and click events of the root, the change of the input, the focus of the *)
(* window, and the timers and picker promises in flight.                   *)
(***************************************************************************)
UiEvent(kind, target, key, stopped) ==
  [kind |-> kind, target |-> target, key |-> key, stopped |-> stopped]

Keys == {"Enter", "a"}

\* The files a user picks in a dialog, and the change event that delivers
\* them with the default extractor.
PickedLists == {<<Img>>, <<Pdf>>}
ChangeLists == PickedLists \cup {<<>>}

InputChangeEvent(files) ==
  [kind |-> "change", target |-> "input", hasFiles |-> TRUE, files |-> files,
   extracted |-> Resolved(files), stopped |-> FALSE]

CallOpen ==
  Step(open(Fresh(st), cfg), pending, "open", NullEvent)

DispatchKeyDown ==
  \E target \in Nodes, key \in Keys, stopped \in BOOLEAN :
    LET event == UiEvent("keydown", target, key, stopped)
    IN /\ Contains(st, target)
       /\ Step(rootOnKeyDown(Fresh(st), cfg, event), pending, "dispatch", event)

DispatchFocus ==
  \E stopped \in BOOLEAN :
    LET event == UiEvent("focus", "root", "", stopped)
    IN Step(rootOnFocus(Fresh(st), cfg, event), pending, "dispatch", event)

DispatchBlur ==
  \E stopped \in BOOLEAN :
    LET event == UiEvent("blur", "root", "", stopped)
    IN Step(rootOnBlur(Fresh(st), cfg, event), pending, "dispatch", event)

DispatchClick ==
  \E stopped \in BOOLEAN :
    LET event == UiEvent("click", "root", "", stopped)
    IN Step(rootOnClick(Fresh(st), cfg, event), pending, "dispatch", event)

\* The user's selection lands in inputRef.files, then change is dispatched.
DispatchChange ==
  \E files \in ChangeLists :
    LET event == InputChangeEvent(files)
        s == [Fresh(st) EXCEPT !.inputFiles = files]
    IN /\ st.inputRef
       /\ Step(inputOnChange(s, cfg, event), pending, "dispatch", event)

WindowFocus ==
  /\ "window.focus" \in st.listeners
  /\ Step(onWindowFocus(Fresh(st), cfg), pending, "windowFocus", NullEvent)

\* A 300 ms timer of onWindowFocus fires.
FocusTimeout ==
  /\ pending.focusTimers > 0
  /\ Step(onWindowFocusTimeout(Fresh(st), cfg),
          [pending EXCEPT !.focusTimers = @ - 1], "focusTimeout", NullEvent)

\* The oldest setTimeout(..., 0) callback runs.
RunTimer ==
  /\ Len(pending.timers) > 0
  /\ Step(runTimer(Fresh(st), cfg, Head(pending.timers)),
          [pending EXCEPT !.timers = Tail(@)], "timer",
          [kind |-> Head(pending.timers)])

\* The promise chain of showOpenFilePicker settles: with the files extracted
\* from the handles, or with an error of the picker or of the extractor.
SettlePicker ==
  /\ pending.pickers > 0
  /\ LET p == [pending EXCEPT !.pickers = @ - 1]
     IN \/ \E files \in PickedLists :
             Step(pickerThen(Fresh(st), cfg, files), p, "picker",
                  [kind |-> "files"])
        \/ \E e \in PickerErrors :
             Step(pickerCatch(Fresh(st), cfg, e), p, "picker", [kind |-> e])

\* The owner of the zone changes the useFsAccessApi prop; no code of the
\* instance runs (lines 156-159 are evaluated at construction only).
SetUseFsAccessApi ==
  /\ cfg' = [cfg EXCEPT !.useFsAccessApi = ~@]
  /\ st' = Fresh(st)
  /\ last' = [op |-> "setProps", event |-> NullEvent]
  /\ UNCHANGED pending

(***************************************************************************)
(* The drag state machine on its own.                                      *)
(***************************************************************************)
DragFlags ==
  { DefaultFlags,
    [DefaultFlags EXCEPT !.noDragEventsBubbling = TRUE],
    [DefaultFlags EXCEPT !.noDrag = TRUE],
    [DefaultFlags EXCEPT !.disabled = TRUE],
    [DefaultFlags EXCEPT !.disabled = TRUE, !.noDragEventsBubbling = TRUE] }

DragConfigs ==
  { Config(f, TRUE, 0, 0, Infinity, "image/*", "none") : f \in DragFlags }

InitDrag ==
  /\ cfg \in DragConfigs
  /\ st = mount(InitState(FALSE, TRUE, FALSE), cfg)
  /\ pending = NoPending
  /\ last = [op |-> "init", event |-> NullEvent]

NextDrag ==
  \/ DispatchDragEnter
  \/ DispatchDragOver
  \/ DispatchDragLeave
  \/ DispatchDrop
  \/ SettleExtraction
  \/ DetachChild

SpecDrag == InitDrag /\ [][NextDrag]_vars

(***************************************************************************)
(* The dialog side on its own: with and without the File System Access     *)
(* API, with and without an <input> bound, in either kind of browser.      *)
(***************************************************************************)
DialogFlags ==
  { [f EXCEPT !.useFsAccessApi = u] :
      f \in { DefaultFlags,
              [DefaultFlags EXCEPT !.noClick = TRUE],
              [DefaultFlags EXCEPT !.noKeyboard = TRUE],
              [DefaultFlags EXCEPT !.disabled = TRUE] },
      u \in BOOLEAN }

DialogConfigs ==
  { Config(f, TRUE, 0, 0, Infinity, "image/*", "none") : f \in DialogFlags }

\* lines 156-159: the picker is usable when the configuration asks for it
\* and the window (a secure context with showOpenFilePicker) offers it.
InitDialog ==
  /\ cfg \in DialogConfigs
  /\ \E offered \in BOOLEAN, inputBound \in BOOLEAN, ieOrEdge \in BOOLEAN :
       st = mount(InitState(cfg.useFsAccessApi /\ offered, inputBound,
                            ieOrEdge), cfg)
  /\ pending = NoPending
  /\ last = [op |-> "init", event |-> NullEvent]

NextDialog ==
  \/ CallOpen
  \/ DispatchKeyDown
  \/ DispatchFocus
  \/ DispatchBlur
  \/ DispatchClick
  \/ DispatchChange
  \/ WindowFocus
  \/ FocusTimeout
  \/ RunTimer
  \/ SettlePicker
  \/ SettleExtraction
  \/ SetUseFsAccessApi

SpecDialog == InitDialog /\ [][NextDialog]_vars

(***************************************************************************)
(* The life of the listeners: the instance is disposed and a new one       *)
(* mounts, preventDropOnDocument changes, drags enter the root and drops   *)
(* reach the document.                                                     *)
(***************************************************************************)
DocumentNodes == Nodes \cup {"outside"}

DocumentEvent(kind, target) ==
  [kind |-> kind, target |-> target, stopped |-> FALSE]

Unmount ==
  /\ st.mounted
  /\ Step(dispose(Fresh(st), cfg), pending, "unmount", NullEvent)

\* A new instance mounts in place of the disposed one: its state is the
\* state after construction, and the listeners still on the document and
\* the window are those the disposed instance left.  The promises of the
\* disposed instance no longer reach a state anyone reads.
Remount ==
  /\ ~st.mounted
  /\ st' = mount([InitState(FALSE, TRUE, FALSE)
                    EXCEPT !.listeners = st.listeners], cfg)
  /\ pending' = NoPending
  /\ last' = [op |-> "mount", event |-> NullEvent]
  /\ UNCHANGED cfg

SetPreventDropOnDocument ==
  LET d == [cfg EXCEPT !.preventDropOnDocument = ~@]
  IN /\ cfg' = d
     /\ st' = documentDropRerun(Fresh(st), cfg, d)
     /\ last' = [op |-> "setProps", event |-> NullEvent]
     /\ UNCHANGED pending

DocumentDrop ==
  \E target \in DocumentNodes :
    LET event == DocumentEvent("drop", target)
    IN /\ "document.drop" \in st.listeners
       /\ Step(onDocumentDrop(Fresh(st), cfg, event), pending, "document",
               event)

DocumentDragOver ==
  \E target \in DocumentNodes :
    LET event == DocumentEvent("dragover", target)
    IN /\ "document.dragover" \in st.listeners
       /\ Step(onDocumentDragOver(Fresh(st), cfg, event), pending,
               "document", event)

LifecycleConfigs ==
  { Config([DefaultFlags EXCEPT !.preventDropOnDocument = p],
           TRUE, 0, 0, Infinity, "image/*", "none") : p \in BOOLEAN }

InitLifecycle ==
  /\ cfg \in LifecycleConfigs
  /\ st = mount(InitState(FALSE, TRUE, FALSE), cfg)
  /\ pending = NoPending
  /\ last = [op |-> "init", event |-> NullEvent]

NextLifecycle ==
  \/ Unmount
  \/ Remount
  \/ SetPreventDropOnDocument
  \/ DocumentDrop
  \/ DocumentDragOver
  \/ DispatchDragEnter
  \/ DispatchDragLeave
  \/ SettleExtraction

SpecLifecycle == InitLifecycle /\ [][NextLifecycle]_vars

(***************************************************************************)
(* A zone nested in another one.  st is the inner zone; st.parent holds    *)
(* the zone around it (a second instance of the same code, with the        *)
(* default configuration) and the extractions of that zone in flight.  An  *)
(* event dispatched on the inner root runs the inner root's handler, then  *)
(* bubbles to the parent's root unless its propagation has been stopped.   *)
(***************************************************************************)
ParentConfig == Config(DefaultFlags, TRUE, 0, 0, Infinity, "image/*", "none")

ParentInit ==
  [zone |-> mount(InitState(FALSE, TRUE, FALSE), ParentConfig),
   conts |-> EmptyBag]

DragKinds == {"dragenter", "dragover", "dragleave", "drop"}

RootDragHandler(s, c, event) ==
  CASE event.kind = "dragenter" -> rootOnDragEnter(s, c, event)
    [] event.kind = "dragover" -> rootOnDragOver(s, c, event)
    [] event.kind = "dragleave" -> rootOnDragLeave(s, c, event)
    [] event.kind = "drop" -> rootOnDrop(s, c, event)

\* propagated that ignores noDragEventsBubbling
propagated_Bubbling(c, event) == event

\* The event as it leaves a root: lines 549-550 and 558-567 stop its
\* propagation when noDragEventsBubbling is set and the root has a handler.
propagated(c, event) ==
  IF composeDragHandlerPresent(c)
  THEN [event EXCEPT !.stopped = @ \/ c.noDragEventsBubbling]
  ELSE event

NestedDragEvents ==
  { DragEvent(kind, "root", payload, FALSE) :
      kind \in DragKinds, payload \in {NoFiles, LateImg, SyncImg} }

\* The tasks a handler of the parent has scheduled join its extractions in
\* flight.
TakeSpawned(zone, conts) ==
  [zone |-> [zone EXCEPT !.spawned = <<>>],
   conts |-> conts (+) SetToBag({ zone.spawned[i] : i \in 1..Len(zone.spawned) })]

\* The parent's root handles the event, whose target is a node inside it.
BubbleToParent(parent, event) ==
  TakeSpawned(RootDragHandler(Fresh(parent.zone), ParentConfig,
                              [event EXCEPT !.target = "child"]),
              parent.conts)

\* The parent once the event has left the inner root.
ParentAfter(parent, event) ==
  IF event.stopped THEN [parent EXCEPT !.zone = Fresh(@)]
  ELSE BubbleToParent(parent, event)

NestedStep(inner, outer, op, p, event) ==
  /\ Len(inner.dragTargets) <= MaxTargets
  /\ Len(outer.zone.dragTargets) <= MaxTargets
  /\ BagCardinality(outer.conts) <= MaxConts
  /\ Step([inner EXCEPT !.parent = outer], p, op, event)

DispatchNested ==
  \E event \in NestedDragEvents :
    NestedStep(RootDragHandler(Fresh(st), cfg, event),
               ParentAfter(st.parent, propagated(cfg, event)),
               "dispatch", pending, event)

ContinuationOf(s, c, t) ==
  IF t.task = "dragenter" THEN onDragEnterThen(s, c, t.event)
  ELSE onDropThen(s, c, t.event)

\* An extraction of the parent zone settles.
SettleParentExtraction ==
  \E t \in BagToSet(st.parent.conts) :
    NestedStep(Fresh(st),
               [zone |-> ContinuationOf(Fresh(st.parent.zone), ParentConfig, t),
                conts |-> st.parent.conts (-) SetToBag({t})],
               "settleParent", pending, t.event)

\* An extraction of the inner zone settles.
SettleNestedExtraction ==
  \E t \in BagToSet(pending.conts) :
    NestedStep(ContinuationOf(Fresh(st), cfg, t),
               [st.parent EXCEPT !.zone = Fresh(@)],
               "settle", [pending EXCEPT !.conts = @ (-) SetToBag({t})],
               t.event)

NestedFlags ==
  { DefaultFlags, [DefaultFlags EXCEPT !.noDragEventsBubbling = TRUE] }

NestedConfigs ==
  { Config(f, TRUE, 0, 0, Infinity, "image/*", "none") : f \in NestedFlags }

InitNested ==
  /\ cfg \in NestedConfigs
  /\ st = [mount(InitState(FALSE, TRUE, FALSE), cfg) EXCEPT !.parent = ParentInit]
  /\ pending = NoPending
  /\ last = [op |-> "init", event |-> NullEvent]

NextNested ==
  \/ DispatchNested
  \/ SettleNestedExtraction
  \/ SettleParentExtraction

SpecNested == InitNested /\ [][NextNested]_vars

(***************************************************************************)
(* The filtering pipeline on its own: any configuration of the filtering   *)
(* options, any file list, with an event or without one.                   *)
(***************************************************************************)
PipelineConfigs ==
  { Config(DefaultFlags, m, n, lo, hi, a, v) :
      m \in BOOLEAN, n \in 0..MaxCount, lo \in {0, 2}, hi \in {2, Infinity},
      a \in Accepts, v \in Validators }

ChangeEvent == [kind |-> "change"]

InitPipeline ==
  /\ cfg \in PipelineConfigs
  /\ st = mount(InitState(FALSE, TRUE, FALSE), cfg)
  /\ pending = NoPending
  /\ last \in [op : {"init"}, files : AllFileLists, event : {NullEvent},
               again : {FALSE}]

\* One run of setFiles on the file list drawn by InitPipeline.
RunSetFiles ==
  \E event \in {NullEvent, ChangeEvent} :
    /\ st' = setFiles(Fresh(st), cfg, last.files, event)
    /\ last' = [op |-> "setFiles", files |-> last.files, event |-> event,
                again |-> last.op = "setFiles"]
    /\ UNCHANGED <<cfg, pending>>

NextPipeline == RunSetFiles

SpecPipeline == InitPipeline /\ [][NextPipeline]_vars

(***************************************************************************)
(* Properties of the filtering pipeline, checked under SpecPipeline.       *)
(***************************************************************************)
\* The files of a list that pass the three per-file checks.
PassesChecks(f, c) ==
  /\ fileAccepted(f, c.accept)[1]
  /\ fileMatchSize(f, c.minSize, c.maxSize)[1]
  /\ validator(c.validator, f).kind = "null"

PassingCount(files, c) ==
  Cardinality({ i \in 1..Len(files) : PassesChecks(files[i], c) })

HasLimit(c) == ~c.multiple \/ c.maxFiles >= 1
LimitInForce(c) == IF c.multiple THEN c.maxFiles ELSE 1

\* C1: one run of setFiles never accepts more files than the limit in force
\* (1 when multiple is false, maxFiles when multiple is true and maxFiles >= 1),
\* and when the files passing the per-file checks outnumber the limit the
\* accepted list is empty.
C1_AcceptedWithinLimit ==
  \A i \in 1..Len(st.runs) :
    LET r == st.runs[i]
    IN HasLimit(cfg) =>
         /\ Len(r.accepted) <= LimitInForce(cfg)
         /\ Len(st.acceptedFiles) <= LimitInForce(cfg)
         /\ PassingCount(r.files, cfg) > LimitInForce(cfg) => r.accepted = <<>>

C1_Witness ==
  /\ Len(st.runs) = 1
  /\ ~cfg.multiple
  /\ PassingCount(st.runs[1].files, cfg) = 2
  /\ st.acceptedFiles = <<>>

\* C2: every rejection the pipeline produces carries at least one error.
C2_RejectionErrorsNonEmpty ==
  \A i \in 1..Len(st.fileRejections) : Len(st.fileRejections[i].errors) > 0

\* The errors the per-file step owes a file: the type error, the size error,
\* then what the validator returned, one error counting as an array of one.
ValidatorErrors(f, c) ==
  LET res == validator(c.validator, f)
  IN IF res.kind = "null" THEN <<>>
     ELSE IF res.kind = "error" THEN <<res.error>>
     ELSE res.errors

ExpectedErrors(f, c) ==
  (IF fileAccepted(f, c.accept)[1] THEN <<>> ELSE <<"file-invalid-type">>)
  \o (IF f.size > c.maxSize THEN <<"file-too-large">>
      ELSE IF f.size < c.minSize THEN <<"file-too-small">> ELSE <<>>)
  \o ValidatorErrors(f, c)

RejectionsOf(f, rejections) == SelectSeq(rejections, LAMBDA r : r.file = f)
Occurs(f, files) == \E i \in 1..Len(files) : files[i] = f

\* C3: a file passes the per-file step iff its type is accepted, its size is
\* within [minSize, maxSize] and the validator returns null (it is then
\* accepted, or rejected by the multiplicity guard alone); otherwise it is
\* rejected with [type error, size error] followed by the validator's errors.
C3_PerFileStep ==
  \A i \in 1..Len(st.runs) :
    LET r == st.runs[i]
    IN \A k \in 1..Len(r.files) :
         LET f == r.files[k]
             rej == RejectionsOf(f, r.rejections)
         IN IF PassesChecks(f, cfg)
            THEN \/ Occurs(f, r.accepted) /\ rej = <<>>
                 \/ /\ ~Occurs(f, r.accepted)
                    /\ rej = <<[file |-> f, errors |-> <<TOO_MANY_FILES_REJECTION>>]>>
            ELSE /\ ~Occurs(f, r.accepted)
                 /\ rej = <<[file |-> f, errors |-> ExpectedErrors(f, cfg)]>>

C3_Witness ==
  /\ Len(st.runs) = 1
  /\ \E k \in 1..Len(st.fileRejections) :
       st.fileRejections[k].errors =
         <<"file-invalid-type", "file-too-large", "custom-1">>
  /\ Len(st.acceptedFiles) > 0

CallsOf(cb) ==
  LET sel == SelectSeq(st.calls, LAMBDA c : c.cb = cb)
  IN [i \in 1..Len(sel) |-> sel[i].args]

\* C4: a run of setFiles that has an event invokes onDrop exactly once, with
\* the run's accepted list, rejection list and the event; onDropRejected iff
\* the rejection list is non-empty; onDropAccepted iff the accepted list is.
C4_DropCallbacks ==
  \A i \in 1..Len(st.runs) :
    LET r == st.runs[i]
    IN (last.op = "setFiles" /\ r.event # NullEvent) =>
         /\ CallsOf("onDrop") = << <<r.accepted, r.rejections, r.event>> >>
         /\ CallsOf("onDropRejected") =
              (IF Len(r.rejections) > 0
               THEN << <<r.rejections, r.event>> >> ELSE <<>>)
         /\ CallsOf("onDropAccepted") =
              (IF Len(r.accepted) > 0
               THEN << <<r.accepted, r.event>> >> ELSE <<>>)

C4_Witness ==
  /\ last.op = "setFiles"
  /\ last.event # NullEvent
  /\ Len(st.acceptedFiles) > 0
  /\ Len(st.fileRejections) = 0
  /\ Len(CallsOf("onDrop")) = 1
  /\ Len(CallsOf("onDropAccepted")) = 1
  /\ Len(CallsOf("onDropRejected")) = 0

(***************************************************************************)
(* Properties of the drag state machine, checked under SpecDrag.           *)
(***************************************************************************)
\* C5: every invocation of the configured onDrop callback receives three
\* arguments: the accepted files, the file rejections and the event.
C5_OnDropThreeArguments ==
  \A i \in 1..Len(st.calls) :
    st.calls[i].cb = "onDrop" => Len(st.calls[i].args) = 3

DragSignals(s) == <<s.isDragActive, s.isDragAccept, s.isDragReject>>
OnlyNode(targets, node) == \A i \in 1..Len(targets) : targets[i] = node
DispatchedAs(kind) == last'.op = "dispatch" /\ last'.event.kind = kind

C7_DisabledNoHandlers ==
  cfg.disabled =>
    /\ \A h \in DOMAIN RootProps(cfg) : ~RootProps(cfg)[h]
    /\ \A h \in DOMAIN InputProps(cfg) : ~InputProps(cfg)[h]
    /\ last.op = "dispatch" => st.calls = <<>>

(***************************************************************************)
(* Properties of the dialog side, checked under SpecDialog.                *)
(***************************************************************************)
\* C8: once a change of the input that carries files has been processed on
\* the proxy-input path, the dialog is not active.
C8_ClosedAfterChange ==
  ( /\ last.op = "dispatch"
    /\ last.event.kind = "change"
    /\ ~st.fsAccessApiWorks
    /\ Len(st.inputFiles) > 0 )
  => ~st.isFileDialogActive

\* C9: once a rejection of the picker's promise with a cancellation error or
\* with an unclassified error has been handled, the dialog is not active.
C9_ClosedAfterPickerError ==
  ( /\ last.op = "picker"
    /\ last.event.kind \in PickerErrors
    /\ ~isSecurityError(last.event.kind) )
  => ~st.isFileDialogActive

\* C10: the timer of a window focus invokes onFileDialogCancel only if the
\* dialog is active and the input holds no files when the timer fires.
C10_CancelOnlyWhenActive ==
  [][ ( /\ last'.op = "focusTimeout"
        /\ \E i \in 1..Len(st'.calls) : st'.calls[i].cb = "onFileDialogCancel" )
      => /\ st.isFileDialogActive
         /\ Len(st.inputFiles) = 0 ]_vars

(***************************************************************************)
(* Properties of the drop and of the extraction, checked under SpecDrag.   *)
(***************************************************************************)
HasCall(s, cb) == \E i \in 1..Len(s.calls) : s.calls[i].cb = cb
AllLow == <<FALSE, FALSE, FALSE>>

\* C11: the three drag signals are false once the handler of a drop has run,
\* and the continuation of the drop's extraction leaves them false.
C11_SignalsLowAfterDrop ==
  [][ /\ ( /\ DispatchedAs("drop")
           /\ composeDragHandlerPresent(cfg) )
         => DragSignals(st') = AllLow
      /\ ( /\ last'.op = "settle"
           /\ last'.event.kind = "drop"
           /\ DragSignals(st) = AllLow )
         => DragSignals(st') = AllLow ]_vars

\* C12: no extraction leaves a rejected promise without a handler, and the
\* continuation of an extraction that failed invokes onError and does not
\* run setFiles.
C12_ExtractionFailureRouted ==
  /\ ~HasCall(st, "unhandledrejection")
  /\ (last.op = "settle" /\ HasCall(st, "onError")) => st.runs = <<>>

(***************************************************************************)
(* Properties of the picker, checked under SpecDialog.                     *)
(***************************************************************************)
\* C13: once a security error of the picker has been handled, an input that
\* is bound has had its value cleared and its click invoked, once, and
\* onError has not been invoked; with no input bound onError has been
\* invoked once and nothing has been clicked.
C13_SecurityFallback ==
  (last.op = "picker" /\ isSecurityError(last.event.kind)) =>
    IF st.inputRef
    THEN /\ st.inputFiles = <<>>
         /\ Len(CallsOf("inputRef.click")) = 1
         /\ ~HasCall(st, "onError")
    ELSE /\ Len(CallsOf("onError")) = 1
         /\ ~HasCall(st, "inputRef.click")

C13_Witness ==
  /\ last.op = "picker"
  /\ isSecurityError(last.event.kind)
  /\ st.inputRef
  /\ st.inputFiles = <<>>
  /\ ~st.fsAccessApiWorks
  /\ HasCall(st, "inputRef.click")

\* C14: fsAccessApiWorks never turns from false to true; it turns from true
\* to false only in the handling of a security error of the picker; and no
\* step invokes showOpenFilePicker once it is false.
C14_DowngradeOnly ==
  [][ /\ st'.fsAccessApiWorks => st.fsAccessApiWorks
      /\ (st.fsAccessApiWorks /\ ~st'.fsAccessApiWorks)
           => (last'.op = "picker" /\ isSecurityError(last'.event.kind))
      /\ HasCall(st', "showOpenFilePicker") => st.fsAccessApiWorks ]_vars

\* the downgrade has just happened, with the configuration still asking for
\* the picker
C14_Witness ==
  /\ cfg.useFsAccessApi
  /\ ~st.fsAccessApiWorks
  /\ last.op = "picker"
  /\ isSecurityError(last.event.kind)
  /\ ~HasCall(st, "showOpenFilePicker")

\* C15: once the picker has resolved, setFiles has run once, on the files
\* picked and with no event; acceptedFiles and fileRejections are the
\* partition of those files; none of onDrop, onDropAccepted, onDropRejected
\* has been invoked; and the dialog is not active.
C15_PickerSuccess ==
  (last.op = "picker" /\ last.event.kind = "files") =>
    /\ Len(st.runs) = 1
    /\ st.runs[1].event = NullEvent
    /\ st.runs[1].files \in PickedLists
    /\ st.acceptedFiles =
         SelectSeq(st.runs[1].files, LAMBDA f : PassesChecks(f, cfg))
    /\ \A i \in 1..Len(st.runs[1].files) :
         LET f == st.runs[1].files[i]
         IN ~PassesChecks(f, cfg) =>
              RejectionsOf(f, st.fileRejections) =
                <<[file |-> f, errors |-> ExpectedErrors(f, cfg)]>>
    /\ Len(st.acceptedFiles) + Len(st.fileRejections) = Len(st.runs[1].files)
    /\ ~HasCall(st, "onDrop")
    /\ ~HasCall(st, "onDropAccepted")
    /\ ~HasCall(st, "onDropRejected")
    /\ ~st.isFileDialogActive

C15_Witness ==
  /\ last.op = "picker"
  /\ last.event.kind = "files"
  /\ Len(st.fileRejections) = 1
  /\ st.acceptedFiles = <<>>
  /\ st.calls = <<>>
  /\ ~st.isFileDialogActive

\* C16: the handling of an abort of the picker invokes onFileDialogCancel
\* once and onError never; the handling of an error that is neither an abort
\* nor a security error invokes onError once, with that error, and
\* onFileDialogCancel never.
C16_PickerErrorClasses ==
  /\ (last.op = "picker" /\ isAbort(last.event.kind)) =>
       /\ Len(CallsOf("onFileDialogCancel")) = 1
       /\ ~HasCall(st, "onError")
  /\ ( /\ last.op = "picker"
       /\ last.event.kind \in PickerErrors
       /\ ~isAbort(last.event.kind)
       /\ ~isSecurityError(last.event.kind) ) =>
       /\ CallsOf("onError") = << <<last.event.kind>> >>
       /\ ~HasCall(st, "onFileDialogCancel")

C16_Witness ==
  /\ last.op = "picker"
  /\ last.event.kind = "TypeError"
  /\ st.calls = <<Call("onError", <<"TypeError">>)>>

(***************************************************************************)
(* Properties of the result and of open, checked under SpecDialog.         *)
(***************************************************************************)
\* C17: the isFileDialogActive member of the result is the dialog state of
\* the moment: true once open() has marked the dialog active, false once the
\* dialog has closed.
C17_ResultReflectsDialog ==
  result(st, cfg).isFileDialogActive = st.isFileDialogActive

\* C18: open() on a disabled zone changes nothing, invokes nothing and
\* schedules nothing; open() with neither the picker usable nor an input
\* bound leaves the dialog state as it is and invokes neither
\* onFileDialogOpen, nor the picker, nor a click of the input.
C18_OpenFrame ==
  [][ last'.op = "open" =>
        /\ cfg.disabled => (st' = Fresh(st) /\ pending' = pending)
        /\ (~st.fsAccessApiWorks /\ ~st.inputRef) =>
             /\ st'.isFileDialogActive = st.isFileDialogActive
             /\ ~HasCall(st', "onFileDialogOpen")
             /\ ~HasCall(st', "showOpenFilePicker")
             /\ ~HasCall(st', "inputRef.click") ]_vars

C18_Witness ==
  /\ last.op = "open"
  /\ cfg.disabled
  /\ st.inputRef
  /\ st.calls = <<>>
  /\ ~st.isFileDialogActive
  /\ ~st.openCalledInThisTick

(***************************************************************************)
(* Properties of the listeners, checked under SpecLifecycle.               *)
(***************************************************************************)
\* C19: at every moment the dragover and drop listeners are on the document
\* iff the instance is mounted and preventDropOnDocument is true, and the
\* focus listener is on the window iff the instance is mounted.
C19_ListenersFollowLifecycle ==
  /\ \A l \in DocumentListeners :
       l \in st.listeners <=> (st.mounted /\ cfg.preventDropOnDocument)
  /\ \A l \in WindowListeners : l \in st.listeners <=> st.mounted

\* disposed while a drag was tracked: no listener is left behind
C19_Witness ==
  /\ last.op = "unmount"
  /\ ~st.mounted
  /\ cfg.preventDropOnDocument
  /\ st.listeners = {}
  /\ st.dragTargets # <<>>

\* C20: the document's drop handler runs only while preventDropOnDocument
\* is true; for a target outside the root it prevents the default and
\* empties the drag targets; for a target inside the root it prevents
\* nothing and changes nothing.
C20_StrayDrop ==
  [][ (last'.op = "document" /\ last'.event.kind = "drop") =>
        /\ cfg.preventDropOnDocument
        /\ \A target \in DocumentNodes :
             st' = onDocumentDrop(Fresh(st), cfg, DocumentEvent("drop", target))
             => IF Contains(st, target)
                THEN st' = Fresh(st)
                ELSE /\ st'.dragTargets = <<>>
                     /\ Len(CallsOf("preventDefault")') = 1 ]_vars

\* a stray drop has emptied a list that held a target
C20_Witness ==
  /\ last.op = "document"
  /\ last.event.kind = "drop"
  /\ st.dragTargets = <<>>
  /\ HasCall(st, "preventDefault")
  /\ st.isDragActive

(***************************************************************************)
(* Properties of the root's keyboard, focus and click handlers, checked    *)
(* under SpecDialog.                                                       *)
(***************************************************************************)
\* The focus, blur, click and keydown events whose propagation the caller's
\* handler has stopped.
StoppedUiEvents ==
  { UiEvent("focus", "root", "", TRUE), UiEvent("blur", "root", "", TRUE),
    UiEvent("click", "root", "", TRUE) }
  \cup { UiEvent("keydown", t, k, TRUE) : t \in Nodes, k \in Keys }

RootUiHandler(s, c, event) ==
  CASE event.kind = "focus" -> rootOnFocus(s, c, event)
    [] event.kind = "blur" -> rootOnBlur(s, c, event)
    [] event.kind = "click" -> rootOnClick(s, c, event)
    [] event.kind = "keydown" -> rootOnKeyDown(s, c, event)

\* C21: in every state the instance reaches, the handling of a focus, blur,
\* click or keydown whose propagation the caller's handler has stopped
\* leaves the state as it is, invokes nothing and schedules nothing.
C21_StoppedUiEventIgnored ==
  \A event \in StoppedUiEvents :
    RootUiHandler(Fresh(st), cfg, event) = Fresh(st)

\* a click on a zone that would have opened the dialog has scheduled nothing
C21_Witness ==
  /\ last.op = "dispatch"
  /\ last.event.kind = "click"
  /\ ~cfg.disabled
  /\ ~cfg.noClick
  /\ ~st.openCalledInThisTick
  /\ ~st.isIeOrEdge
  /\ st.spawned = <<>>
  /\ st.calls = <<>>

(***************************************************************************)
(* Properties of a nested zone, checked under SpecNested.                  *)
(***************************************************************************)
DragCallback(kind) ==
  CASE kind = "dragenter" -> "onDragEnter"
    [] kind = "dragover" -> "onDragOver"
    [] kind = "dragleave" -> "onDragLeave"
    [] kind = "drop" -> "onDrop"

\* C22: with noDragEventsBubbling set on the inner zone, a drag event
\* dispatched on the inner root invokes the inner zone's callback for it,
\* and the parent zone stays as it was constructed: none of its callbacks
\* is ever invoked and its drag state never changes.
C22_NoBubblingToParent ==
  cfg.noDragEventsBubbling =>
    /\ st.parent = ParentInit
    /\ (last.op = "dispatch" /\ last.event.kind \in DragKinds)
         => HasCall(st, DragCallback(last.event.kind))

C22_Witness ==
  /\ cfg.noDragEventsBubbling
  /\ last.op = "dispatch"
  /\ last.event.kind = "dragleave"
  /\ st.isDragActive
  /\ Len(st.dragTargets) = 1
  /\ HasCall(st, "onDragLeave")
  /\ st.parent.zone.calls = <<>>
  /\ ~st.parent.zone.isDragActive

(***************************************************************************)
(* The owner of the zone switches noDrag, noKeyboard and noClick while the *)
(* zone is in use.  The bundles are read again after every change, so the  *)
(* handlers of the root are those of the configuration of the moment.      *)
(***************************************************************************)
\* line 624, and the effect of lines 112-121: the tabindex of the root
rootTabIndex(c) ==
  IF ~c.disabled /\ ~c.noKeyboard THEN <<0>> ELSE <<>>

\* A change of props: no handler of the instance runs.
SetProps(c) ==
  /\ cfg' = c
  /\ st' = Fresh(st)
  /\ last' = [op |-> "setProps", event |-> NullEvent]
  /\ UNCHANGED pending

SetNoDrag == SetProps([cfg EXCEPT !.noDrag = ~@])
SetNoKeyboard == SetProps([cfg EXCEPT !.noKeyboard = ~@])
SetNoClick == SetProps([cfg EXCEPT !.noClick = ~@])

\* A drag event that starts on the root itself, with the payload available
\* at once.
RootDragInputs ==
  { DragEvent(kind, "root", payload, FALSE) :
      kind \in DragKinds, payload \in {NoFiles, SyncImg} }

DispatchRootDrag ==
  \E event \in RootDragInputs :
    /\ Len(st.dragTargets) < MaxTargets \/ event.kind # "dragenter"
    /\ Step(RootDragHandler(Fresh(st), cfg, event), pending, "dispatch", event)

\* The zone starts with the three behaviours switched off.
InitFlags ==
  /\ cfg = Config([DefaultFlags EXCEPT !.noDrag = TRUE, !.noKeyboard = TRUE,
                                       !.noClick = TRUE],
                  TRUE, 0, 0, Infinity, "image/*", "none")
  /\ st = mount(InitState(FALSE, TRUE, FALSE), cfg)
  /\ pending = NoPending
  /\ last = [op |-> "init", event |-> NullEvent]

NextFlags ==
  \/ SetNoDrag
  \/ SetNoKeyboard
  \/ SetNoClick
  \/ DispatchRootDrag
  \/ DispatchKeyDown
  \/ DispatchFocus
  \/ DispatchBlur
  \/ DispatchClick
  \/ RunTimer

SpecFlags == InitFlags /\ [][NextFlags]_vars

(***************************************************************************)
(* C23: for a zone that is not disabled, while noDrag is true no drag      *)
(* event on the root invokes a callback or changes the state; while        *)
(* noKeyboard is true no focus, blur or keydown changes the state or opens *)
(* the dialog, and the root has no tabindex; while noClick is true a click *)
(* on the root opens nothing.  Once a flag is back to false the behaviour  *)
(* is there again: a drag event reaches its callback and a dragenter with  *)
(* files raises isDragActive, focus and blur set isFocused, Enter on the   *)
(* root opens the dialog, the root has tabindex 0, and a click schedules   *)
(* the opening.                                                            *)
(***************************************************************************)
KeyboardKinds == {"focus", "blur", "keydown"}
OpenTimer == [task |-> "timer", fn |-> "openFileDialog"]
RootEvent(kind) == UiEvent(kind, "root", "Enter", FALSE)

DragSwitchedOff ==
  (last'.op = "dispatch" /\ last'.event.kind \in DragKinds)
    => st' = Fresh(st) /\ pending' = pending

DragSwitchedOn ==
  /\ (last'.op = "dispatch" /\ last'.event.kind \in DragKinds)
       => HasCall(st', DragCallback(last'.event.kind))
  /\ Len(st.dragTargets) < MaxTargets =>
       rootOnDragEnter(Fresh(st), cfg,
                       DragEvent("dragenter", "root", SyncImg, FALSE)).isDragActive

KeyboardSwitchedOff ==
  /\ rootTabIndex(cfg) = <<>>
  /\ (last'.op = "dispatch" /\ last'.event.kind \in KeyboardKinds)
       => st' = Fresh(st) /\ pending' = pending

KeyboardSwitchedOn ==
  /\ rootTabIndex(cfg) = <<0>>
  /\ rootOnFocus(Fresh(st), cfg, RootEvent("focus")).isFocused
  /\ ~rootOnBlur(Fresh(st), cfg, RootEvent("blur")).isFocused
  /\ HasCall(rootOnKeyDown(Fresh(st), cfg, RootEvent("keydown")),
             "onFileDialogOpen")

ClickSwitchedOff ==
  (last'.op = "dispatch" /\ last'.event.kind = "click")
    => st' = Fresh(st) /\ pending' = pending

ClickSwitchedOn ==
  rootOnClick(Fresh(st), cfg, RootEvent("click")).spawned = <<OpenTimer>>

C23_FlagsSwitchBehaviour ==
  [][ ~cfg.disabled =>
        /\ IF cfg.noDrag THEN DragSwitchedOff ELSE DragSwitchedOn
        /\ IF cfg.noKeyboard THEN KeyboardSwitchedOff ELSE KeyboardSwitchedOn
        /\ IF cfg.noClick THEN ClickSwitchedOff ELSE ClickSwitchedOn ]_vars

\* noDrag has been set back to false (the zone starts with it true), and a
\* dragenter with files has raised isDragActive and reached onDragEnter
\* while the keyboard and the click are still switched off.
C23_Witness ==
  /\ ~cfg.disabled /\ ~cfg.noDrag /\ cfg.noKeyboard /\ cfg.noClick
  /\ last.op = "dispatch" /\ last.event.kind = "dragenter"
  /\ st.isDragActive
  /\ HasCall(st, "onDragEnter")

PassingFiles(files, c) == SelectSeq(files, LAMBDA f : PassesChecks(f, c))

OwnRejections(files, c) ==
  LET failing == SelectSeq(files, LAMBDA f : ~PassesChecks(f, c))
  IN [k \in 1..Len(failing) |->
        [file |-> failing[k], errors |-> ExpectedErrors(failing[k], c)]]

GuardRejections(files) ==
  [k \in 1..Len(files) |->
     [file |-> files[k], errors |-> <<TOO_MANY_FILES_REJECTION>>]]

C25_MultiplicityGuard ==
  \A i \in 1..Len(st.runs) :
    LET r == st.runs[i]
        passing == PassingFiles(r.files, cfg)
    IN IF HasLimit(cfg) /\ Len(passing) > LimitInForce(cfg)
       THEN /\ r.accepted = <<>>
            /\ r.rejections =
                 OwnRejections(r.files, cfg) \o GuardRejections(passing)
       ELSE /\ r.accepted = passing
            /\ r.rejections = OwnRejections(r.files, cfg)

\* The input is longer than the limit, but only through a file that fails
\* its own checks: the passing files stay accepted.
C25_Witness ==
  /\ Len(st.runs) = 1
  /\ HasLimit(cfg)
  /\ Len(st.runs[1].files) > LimitInForce(cfg)
  /\ PassingCount(st.runs[1].files, cfg) <= LimitInForce(cfg)
  /\ st.acceptedFiles # <<>>
  /\ Len(st.acceptedFiles) + Len(st.fileRejections) = Len(st.runs[1].files)

(***************************************************************************)
(* C26: on a zone whose drag handlers are present, a dragleave that        *)
(* carries no files, or whose target is not in the drag-target list,       *)
(* leaves the list and the three drag signals as they are; a file-carrying *)
(* dragleave whose target is in the list leaves the targets the root still *)
(* contains, in their order, less one occurrence of the event's target.    *)
(***************************************************************************)
StillContained(s) == SelectSeq(s.dragTargets, LAMBDA t : Contains(s, t))

\* seq without its entry at position k
Without(seq, k) == SubSeq(seq, 1, k - 1) \o SubSeq(seq, k + 1, Len(seq))

LeaveKeeps(before, after, event) ==
  IF ~event.hasFiles \/ ~Includes(before.dragTargets, event.target)
  THEN /\ after.dragTargets = before.dragTargets
       /\ DragSignals(after) = DragSignals(before)
  ELSE \E k \in 1..Len(StillContained(before)) :
         /\ StillContained(before)[k] = event.target
         /\ after.dragTargets = Without(StillContained(before), k)

C26_LeavePrunesAndRemovesOne ==
  composeDragHandlerPresent(cfg) =>
    \A event \in RootDragEvents("dragleave") :
      LeaveKeeps(st, rootOnDragLeave(Fresh(st), cfg, event), event)

\* The list holds a node the root no longer contains, then the root: the
\* leave of the root prunes the first and removes the second.
C26_Witness ==
  /\ composeDragHandlerPresent(cfg)
  /\ st.dragTargets = <<"child", "root">>
  /\ "child" \in st.detached
  /\ DragEvent("dragleave", "root", SyncImg, FALSE) \in RootDragEvents("dragleave")
  /\ rootOnDragLeave(Fresh(st), cfg,
                     DragEvent("dragleave", "root", SyncImg, FALSE)).dragTargets = <<>>

(***************************************************************************)
(* C27: a dragleave invokes onDragLeave only when it carries files, its    *)
(* target is tracked (the two conditions under which onDragLeaveCb calls   *)
(* preventDefault) and the drag-target list is empty afterwards.           *)
(***************************************************************************)
C27_LeaveCallbackOnlyWhenEmptied ==
  ( /\ last.op = "dispatch"
    /\ last.event.kind = "dragleave"
    /\ HasCall(st, "onDragLeave") )
  => /\ HasCall(st, "preventDefault")
     /\ st.dragTargets = <<>>

(***************************************************************************)
(* C28: a dragover on a zone with its drag handlers always has its default *)
(* prevented, and invokes onDragOver only if it carries files.             *)
(***************************************************************************)
C28_OverCallbackOnlyWithFiles ==
  [][ \A event \in RootDragEvents("dragover") :
        ( /\ DispatchedAs("dragover")
          /\ st' = rootOnDragOver(Fresh(st), cfg, event)
          /\ composeDragHandlerPresent(cfg) )
        => /\ HasCall(st', "preventDefault")
           /\ ~event.hasFiles => ~HasCall(st', "onDragOver") ]_vars

(***************************************************************************)
(* C29: on a zone with its drag handlers, once a dragleave has been        *)
(* processed isDragActive is true iff the drag-target list, pruned, is not *)
(* empty; once a dragenter has been processed, and no extraction is left   *)
(* in flight, isDragActive is true.                                        *)
(***************************************************************************)
C29_ActiveFollowsTargets ==
  (composeDragHandlerPresent(cfg) /\ last.op = "dispatch") =>
    /\ last.event.kind = "dragleave"
         => (st.isDragActive <=> StillContained(st) # <<>>)
    /\ (last.event.kind = "dragenter" /\ pending.conts = EmptyBag)
         => st.isDragActive

(***************************************************************************)
(* C30: the continuation of an extraction that resolves for an event whose *)
(* propagation has been stopped, on a zone where noDragEventsBubbling is   *)
(* false, is swallowed: it changes nothing of the state (drag signals,     *)
(* accepted files and rejections included), invokes no callback and runs   *)
(* no setFiles.                                                            *)
(***************************************************************************)
Swallowed(t) ==
  t.event.stopped /\ t.event.extracted.ok /\ ~cfg.noDragEventsBubbling

C30_StoppedContinuationSwallowed ==
  \A t \in BagToSet(pending.conts) :
    Swallowed(t) => ContinuationOf(Fresh(st), cfg, t) = Fresh(st)

\* A continuation has run and has done nothing: it was neither routed to
\* onError nor let through to onDragEnter or setFiles.
C30_Witness ==
  /\ last.op = "settle"
  /\ last.event.kind = "drop"
  /\ ~cfg.noDragEventsBubbling
  /\ st.calls = <<>>
  /\ st.runs = <<>>
  /\ st.acceptedFiles = <<>>

(***************************************************************************)
(* C31: the change of the input with files runs setFiles once, in the      *)
(* handler, and neither calls the extractor nor leaves anything in flight. *)
(* A drop whose dataTransfer.files is not empty calls the extractor once   *)
(* and runs setFiles once in the handler; the continuation of its          *)
(* extraction, when it resolves and is not swallowed, runs setFiles once   *)
(* more, and each of the two runs invokes onDrop.                          *)
(***************************************************************************)
CountCalls(s, cb) == Cardinality({ i \in 1..Len(s.calls) : s.calls[i].cb = cb })

OneWave(s) ==
  /\ Len(s.runs) = 1
  /\ \E i \in 1..Len(s.calls) :
       s.calls[i].cb = "onDrop" /\ Len(s.calls[i].args) = 3

ChangeRunsOnce(s) ==
  /\ OneWave(s)
  /\ CountCalls(s, "getFilesFromEvent") = 0
  /\ s.spawned = <<>>

DropRunsTwice(s, c) ==
  /\ OneWave(s)
  /\ CountCalls(s, "getFilesFromEvent") = 1
  /\ Len(s.spawned) = 1
  /\ s.spawned[1].task = "drop"
  /\ ( /\ s.spawned[1].event.extracted.ok
       /\ ~s.spawned[1].event.stopped \/ c.noDragEventsBubbling )
     => OneWave(onDropThen(Fresh(s), c, s.spawned[1].event))

C31_ChangeOnceDropTwice ==
  /\ composeHandlerPresent(cfg) =>
       \A files \in PickedLists :
         ChangeRunsOnce(inputOnChange([Fresh(st) EXCEPT !.inputFiles = files],
                                      cfg, InputChangeEvent(files)))
  /\ composeDragHandlerPresent(cfg) =>
       \A event \in RootDragEvents("drop") :
         Len(event.files) > 0
           => DropRunsTwice(rootOnDrop(Fresh(st), cfg, event), cfg)

\* The handler of a drop has made the first run on the snapshot and left the
\* extraction in flight for the second.
C31_Witness ==
  /\ last.op = "dispatch"
  /\ last.event.kind = "drop"
  /\ Len(st.runs) = 1
  /\ st.acceptedFiles # <<>>
  /\ CountCalls(st, "getFilesFromEvent") = 1
  /\ BagCardinality(pending.conts) = 1

(***************************************************************************)
(* C32: on a zone that is not disabled, while the flag set by open() is up *)
(* a click on the root changes nothing, invokes nothing and schedules      *)
(* nothing, and the timer that lowers the flag is in flight; that timer    *)
(* lowers it; and with the flag down a click on a zone with noClick off    *)
(* opens again: it schedules openFileDialog, or in IE/Edge clicks the      *)
(* input that is bound.                                                    *)
(***************************************************************************)
ClickOpens(before, after) ==
  IF before.isIeOrEdge
  THEN before.inputRef => HasCall(after, "inputRef.click")
  ELSE after.spawned = <<OpenTimer>>

C32_OneOpeningPerTick ==
  ~cfg.disabled =>
    /\ st.openCalledInThisTick =>
         /\ \A stopped \in BOOLEAN :
              rootOnClick(Fresh(st), cfg, UiEvent("click", "root", "", stopped))
                = Fresh(st)
         /\ Includes(pending.timers, "resetTick")
    /\ (last.op = "timer" /\ last.event.kind = "resetTick")
         => ~st.openCalledInThisTick
    /\ (~st.openCalledInThisTick /\ ~cfg.noClick) =>
         ClickOpens(st, rootOnClick(Fresh(st), cfg, RootEvent("click")))

\* open() has opened the dialog and a click handled before the timer of
\* open() ran has done nothing.
C32_Witness ==
  /\ ~cfg.disabled /\ ~cfg.noClick
  /\ last.op = "dispatch" /\ last.event.kind = "click"
  /\ st.openCalledInThisTick
  /\ st.isFileDialogActive
  /\ st.calls = <<>> /\ st.spawned = <<>>
  /\ pending.timers = <<"resetTick">>

(***************************************************************************)
(* C33: a step in which the instance clicks the input has, before the      *)
(* click, marked the dialog active and invoked onFileDialogOpen, and has   *)
(* cleared the value of the input.                                         *)
(***************************************************************************)
C33_ClickAfterMarking ==
  \A i \in 1..Len(st.calls) :
    st.calls[i].cb = "inputRef.click" =>
      /\ st.isFileDialogActive
      /\ \E j \in 1..(i - 1) : st.calls[j].cb = "onFileDialogOpen"
      /\ st.inputFiles = <<>>

(***************************************************************************)
(* C34: after a run of setFiles every file of the input is once in the     *)
(* result, as an accepted file or as the file of one rejection, and the    *)
(* accepted files are in the order of the input.                           *)
(***************************************************************************)
TimesAccepted(f, accepted) ==
  Cardinality({ k \in 1..Len(accepted) : accepted[k] = f })

TimesRejected(f, rejections) ==
  Cardinality({ k \in 1..Len(rejections) : rejections[k].file = f })

C34_RunPartitionsInput ==
  \A i \in 1..Len(st.runs) :
    LET r == st.runs[i]
    IN /\ \A k \in 1..Len(r.files) :
            TimesAccepted(r.files[k], r.accepted)
              + TimesRejected(r.files[k], r.rejections) = 1
       /\ Len(r.accepted) + Len(r.rejections) = Len(r.files)
       /\ r.accepted = SelectSeq(r.files, LAMBDA f : Occurs(f, r.accepted))
       /\ st.acceptedFiles = r.accepted
       /\ st.fileRejections = r.rejections

\* A run on three files has accepted two and rejected the one between them.
C34_Witness ==
  /\ Len(st.runs) = 1
  /\ Len(st.runs[1].files) = 3
  /\ st.acceptedFiles = <<st.runs[1].files[1], st.runs[1].files[3]>>
  /\ Len(st.fileRejections) = 1
  /\ st.fileRejections[1].file = st.runs[1].files[2]

(***************************************************************************)
(* C35: a dragenter whose dataTransfer.files is a non-empty list sets      *)
(* isDragAccept to true iff a run of setFiles on the same files under the  *)
(* same configuration rejects none, and isDragReject to the negation.      *)
(***************************************************************************)
SyncEnter(files) ==
  [kind |-> "dragenter", target |-> "root", hasFiles |-> TRUE, files |-> files,
   extracted |-> Resolved(files), stopped |-> FALSE]

PredictionAgrees(entered, dropped) ==
  /\ entered.isDragActive
  /\ entered.isDragAccept <=> dropped.fileRejections = <<>>
  /\ entered.isDragReject <=> ~entered.isDragAccept

C35_PredictionMatchesDrop ==
  Len(last.files) > 0 =>
    PredictionAgrees(onDragEnterCb(Fresh(st), cfg, SyncEnter(last.files)),
                     setFiles(Fresh(st), cfg, last.files, ChangeEvent))

\* Two files that pass their own checks have been run through setFiles on a
\* zone that takes one: all are rejected, and the dragenter predicts it.
C35_Witness ==
  /\ last.op = "setFiles"
  /\ Len(last.files) = 2
  /\ PassingCount(last.files, cfg) = 2
  /\ Len(st.fileRejections) = 2
  /\ onDragEnterCb(Fresh(st), cfg, SyncEnter(last.files)).isDragReject

(***************************************************************************)
(* C36: isDragAccept and isDragReject are never both true.                 *)
(***************************************************************************)
C36_AcceptRejectExclusive == ~(st.isDragAccept /\ st.isDragReject)

(***************************************************************************)
(* C37: when the drag-target list is empty and the three drag signals are  *)
(* low, which is how a drop or a complete leave leaves them, the           *)
(* continuation of the extraction of an earlier dragenter leaves the three *)
(* signals low.                                                            *)
(***************************************************************************)
C37_LateEnterStaysLow ==
  [][ ( /\ last'.op = "settle"
        /\ last'.event.kind = "dragenter"
        /\ st.dragTargets = <<>>
        /\ DragSignals(st) = AllLow )
      => DragSignals(st') = AllLow ]_vars

(***************************************************************************)
(* C38: a dragenter on a node inside the root that finds the drag-target   *)
(* list empty, followed at once by a dragleave on the same node with the   *)
(* same payload, leaves the list empty, whether or not the payload carries *)
(* files.                                                                  *)
(***************************************************************************)
EnterOf(i) == DragEvent("dragenter", i[1], i[2], i[3])
LeaveOf(i) == DragEvent("dragleave", i[1], i[2], i[3])

\* The step before was the dragenter of i on an empty list, and this step is
\* the dragleave of i.
MatchedPair(i) ==
  /\ last.op = "dispatch" /\ last.event.kind = "dragenter"
  /\ st = rootOnDragEnter([Fresh(st) EXCEPT !.dragTargets = <<>>], cfg, EnterOf(i))
  /\ DispatchedAs("dragleave")
  /\ st' = rootOnDragLeave(Fresh(st), cfg, LeaveOf(i))

C38_MatchedLeaveEmptiesList ==
  [][ \A i \in DragInputs :
        (composeDragHandlerPresent(cfg) /\ MatchedPair(i))
          => st'.dragTargets = <<>> ]_vars

(***************************************************************************)
(* C39: on a zone that is not disabled, the handler of a dragenter on the  *)
(* root invokes onDragEnter at most once.                                  *)
(***************************************************************************)
C39_EnterCallbackAtMostOnce ==
  (~cfg.disabled /\ last.op = "dispatch" /\ last.event.kind = "dragenter")
    => CountCalls(st, "onDragEnter") <= 1

(***************************************************************************)
(* C40: while isFileDialogActive is true, a call of open(), a keydown on   *)
(* the root and a click on the root invoke no onFileDialogOpen, click no   *)
(* input and call no picker.                                               *)
(***************************************************************************)
Opens(s) ==
  \/ HasCall(s, "onFileDialogOpen")
  \/ HasCall(s, "inputRef.click")
  \/ HasCall(s, "showOpenFilePicker")

C40_NoSecondOpening ==
  [][ ( /\ st.isFileDialogActive
        /\ \/ last'.op = "open"
           \/ last'.op = "dispatch" /\ last'.event.kind \in {"keydown", "click"} )
      => ~Opens(st') ]_vars

====
